---- MODULE Spec2Model ----
(***************************************************************************)
(* Model of business_scraper.py: BusinessScraper (HTTP fetch through a     *)
(* requests.Session whose adapter carries a urllib3 Retry policy, and a    *)
(* BeautifulSoup/CSS-selector parse), the writers and the run workflow.    *)
(*                                                                         *)
(* Time is counted in tenths of a second, so that the default backoff      *)
(* factor 0.7 is the integer 7.  Text is a sequence of one-character       *)
(* strings.  A document is the sequence of its nodes in document order.    *)
(***************************************************************************)
EXTENDS Integers, Sequences, FiniteSets, TLC

VARIABLES
    pc,              \* position of the workflow
    max_retries,     \* BusinessScraper.__init__ argument
    backoff_factor,  \* BusinessScraper.__init__ argument, in tenths of a second
    session,         \* self.session: "none", "open" or "closed"
    retry,           \* the urllib3 Retry object travelling with the request
    attempts,        \* what the transport saw: one entry per HTTP attempt
    delays,          \* time slept before each retry, in order
    response,        \* the last response received by session.get
    fetched,         \* outcome of fetch_html
    args,            \* selectors and output format given to run / parse
    html,            \* markup handed to parse
    parsed,          \* outcome of parse
    outfile,         \* the output file
    logged,          \* levels of the messages logged by run
    exit_status      \* value returned by run; -1 while it has not returned

vars == <<pc, max_retries, backoff_factor, session, retry, attempts, delays,
          response, fetched, args, html, parsed, outfile, logged, exit_status>>

(***************************************************************************)
(* Bounds of the model.                                                    *)
(***************************************************************************)
MaxRetries == 3      \* largest max_retries a scraper is constructed with
MaxNodes == 5        \* largest number of nodes of a parsed document

(***************************************************************************)
(* Text.                                                                   *)
(***************************************************************************)
Whitespace == {" "}

NA == <<"N", "/", "A">>

RECURSIVE lstrip(_)
lstrip(s) ==
    IF s = <<>> THEN <<>>
    ELSE IF Head(s) \in Whitespace THEN lstrip(Tail(s)) ELSE s

RECURSIVE rstrip(_)
rstrip(s) ==
    IF s = <<>> THEN <<>>
    ELSE IF s[Len(s)] \in Whitespace THEN rstrip(SubSeq(s, 1, Len(s) - 1)) ELSE s

strip(s) == rstrip(lstrip(s))

(***************************************************************************)
(* Documents: the tree BeautifulSoup(html, "html.parser") builds.  Node i  *)
(* of the sequence is the i-th node in document order; parent = 0 is the   *)
(* soup object itself.  An element's shape is the simple selector that     *)
(* matches it; a text node (NavigableString) has shape "#text".            *)
(***************************************************************************)
ElementShapes == {"div.business-card", "h2", "span.email"}

Texts == {<<" ">>, <<" ", "x", " ">>}

InvalidSelectors == {"h2["}

Element(p, shape) == [parent |-> p, shape |-> shape, text |-> <<>>]

TextNode(p, t) == [parent |-> p, shape |-> "#text", text |-> t]

IsElement(node) == node.shape # "#text"

RECURSIVE IsAncestor(_, _, _)
IsAncestor(doc, a, j) ==
    IF j = 0 THEN FALSE
    ELSE doc[j].parent = a \/ IsAncestor(doc, a, doc[j].parent)

\* Every node is a descendant of the soup object (scope 0).
InScope(doc, scope, j) == scope = 0 \/ IsAncestor(doc, scope, j)

\* Where the parser can attach the next node: under the soup object or under
\* an element that is still open (the last node or one of its ancestors).
OpenElements(doc) ==
    {0} \cup {a \in 1..Len(doc) :
                 /\ IsElement(doc[a])
                 /\ (a = Len(doc) \/ IsAncestor(doc, a, Len(doc)))}

\* The parser joins adjacent character data into one text node, so a text node
\* never directly follows a sibling text node.
NextNodes(doc) ==
    {Element(p, sh) : p \in OpenElements(doc), sh \in ElementShapes}
    \cup {TextNode(p, t) : p \in {q \in OpenElements(doc) :
                                     ~(/\ Len(doc) > 0
                                       /\ ~IsElement(doc[Len(doc)])
                                       /\ doc[Len(doc)].parent = q)},
                           t \in Texts}

(***************************************************************************)
(* CSS selection (soupsieve through Tag.select / Tag.select_one).          *)
(***************************************************************************)
ValidSelector(sel) == sel \notin InvalidSelectors

Matches(node, sel) == IsElement(node) /\ node.shape = sel

\* select: the matching descendants of scope, from node i on, in document order.
RECURSIVE SelectFrom(_, _, _, _)
SelectFrom(doc, scope, sel, i) ==
    IF i > Len(doc) THEN <<>>
    ELSE IF InScope(doc, scope, i) /\ Matches(doc[i], sel)
         THEN <<i>> \o SelectFrom(doc, scope, sel, i + 1)
         ELSE SelectFrom(doc, scope, sel, i + 1)

\* Variant: a match nested inside another match is skipped.
select_outermost(doc, scope, sel) ==
    LET Outermost(i) ==
            ~\E a \in 1..Len(doc) : IsAncestor(doc, a, i) /\ Matches(doc[a], sel)
    IN  SelectSeq(SelectFrom(doc, scope, sel, 1), Outermost)

select(doc, scope, sel) == SelectFrom(doc, scope, sel, 1)

\* Variant: the first match of the whole document, whatever the scope.
select_one_anywhere(doc, scope, sel) ==
    LET found == SelectFrom(doc, 0, sel, 1)
    IN  IF found = <<>> THEN 0 ELSE found[1]

\* select_one: the first match, 0 standing for None.
select_one(doc, scope, sel) ==
    LET found == select(doc, scope, sel)
    IN  IF found = <<>> THEN 0 ELSE found[1]

\* Tag.get_text(strip=True): every descendant string stripped, the empty ones
\* dropped, the rest joined with no separator.
RECURSIVE StrippedStringsFrom(_, _, _)
StrippedStringsFrom(doc, e, i) ==
    IF i > Len(doc) THEN <<>>
    ELSE IF ~IsElement(doc[i]) /\ IsAncestor(doc, e, i)
         THEN strip(doc[i].text) \o StrippedStringsFrom(doc, e, i + 1)
         ELSE StrippedStringsFrom(doc, e, i + 1)

get_text(doc, e) == StrippedStringsFrom(doc, e, 1)

(***************************************************************************)
(* BusinessScraper.parse                                                   *)
(***************************************************************************)
BusinessRecord(name, email) == [name |-> name, email |-> email]

RecordOfCard(doc, card, name_selector, email_selector) ==
    LET name_element == select_one(doc, card, name_selector)
        email_element == select_one(doc, card, email_selector)
    IN  BusinessRecord(
            IF name_element # 0 THEN get_text(doc, name_element) ELSE NA,
            IF email_element # 0 THEN get_text(doc, email_element) ELSE NA)

RECURSIVE RecordsOfCards(_, _, _, _)
RecordsOfCards(doc, cards, name_selector, email_selector) ==
    IF cards = <<>> THEN <<>>
    ELSE <<RecordOfCard(doc, Head(cards), name_selector, email_selector)>>
         \o RecordsOfCards(doc, Tail(cards), name_selector, email_selector)

Returned(records) == [raised |-> "none", records |-> records]

Raised(exc) == [raised |-> exc, records |-> <<>>]

\* A selector is compiled when it is first used: the card selector always, the
\* name and email selectors only once there is a card to search.
parse(doc, card_selector, name_selector, email_selector) ==
    IF ~ValidSelector(card_selector) THEN Raised("SelectorSyntaxError")
    ELSE LET cards == select(doc, 0, card_selector)
         IN  IF cards = <<>> THEN Returned(<<>>)
             ELSE IF ~ValidSelector(name_selector) \/ ~ValidSelector(email_selector)
                  THEN Raised("SelectorSyntaxError")
                  ELSE Returned(RecordsOfCards(doc, cards, name_selector, email_selector))

(***************************************************************************)
(* The retry policy: urllib3.util.retry.Retry as BusinessScraper.__init__  *)
(* configures it (total = connect = read = status = max_retries,           *)
(* raise_on_status = False, GET is an allowed method), driven by           *)
(* HTTPConnectionPool.urlopen.                                             *)
(***************************************************************************)
DEFAULT_MAX_RETRIES == 3

DEFAULT_BACKOFF_FACTOR == 7

BACKOFF_MAX == 1200

status_forcelist == {429, 500, 502, 503, 504}

RETRY_AFTER_STATUS_CODES == {413, 429, 503}

Min(a, b) == IF a <= b THEN a ELSE b

\* Variant: max_retries taken as the number of attempts, not of retries.
Retry_one_short(n) ==
    [total |-> n - 1, connect |-> n - 1, read |-> n - 1, status |-> n - 1,
     history |-> 0]

Retry(n) == [total |-> n, connect |-> n, read |-> n, status |-> n, history |-> 0]

\* Retry.is_retry for a GET: a forced status, or a Retry-After header on a
\* status that honours it while total is not used up.
is_retry(r, status_code, has_retry_after) ==
    \/ status_code \in status_forcelist
    \/ (r.total # 0 /\ has_retry_after /\ status_code \in RETRY_AFTER_STATUS_CODES)

\* Retry.increment: total always goes down, with it the counter of the cause.
increment(r, cause) ==
    [r EXCEPT !.total = @ - 1,
              !.connect = IF cause = "ConnectTimeoutError" THEN @ - 1 ELSE @,
              !.read = IF cause = "ReadTimeoutError" THEN @ - 1 ELSE @,
              !.status = IF cause = "response" THEN @ - 1 ELSE @,
              !.history = @ + 1]

\* Variant: a counter that has reached zero already counts as used up.
is_exhausted_at_zero(r) ==
    \E x \in {r.total, r.connect, r.read, r.status} : x <= 0

is_exhausted(r) ==
    \E x \in {r.total, r.connect, r.read, r.status} : x < 0

\* Variant: the backoff applies from the first failure on.
get_backoff_time_from_first(r, factor) ==
    Min(BACKOFF_MAX, factor * 2 ^ (r.history - 1))

\* Retry.get_backoff_time: nothing after the first failure, then
\* backoff_factor * 2 ** (failures - 1), at most BACKOFF_MAX.
get_backoff_time(r, factor) ==
    IF r.history <= 1 THEN 0
    ELSE Min(BACKOFF_MAX, factor * 2 ^ (r.history - 1))

\* Retry.sleep: a positive Retry-After of the response wins over the backoff.
sleep(r, factor, resp) ==
    IF resp.kind = "response" /\ resp.retry_after > 0 THEN resp.retry_after
    ELSE get_backoff_time(r, factor)

(***************************************************************************)
(* The transport: what one HTTP attempt can come back with.  retry_after   *)
(* is the Retry-After header in tenths of a second, -1 when absent.        *)
(***************************************************************************)
Statuses == {200, 404, 413, 500, 503}

RetryAfters == {-1, 0, 50}

BackoffFactors == {DEFAULT_BACKOFF_FACTOR, 400}

ErrorPage == <<Element(0, "h2")>>

Pages ==
    { <<>>,
      <<Element(0, "span.email")>>,
      <<Element(0, "div.business-card")>>,
      <<Element(0, "div.business-card"), Element(1, "h2"),
        TextNode(2, <<" ", "x", " ">>)>> }

Responses ==
    {[kind |-> "response", status |-> s, retry_after |-> ra, body |-> b] :
        s \in Statuses \ {200}, ra \in RetryAfters, b \in {ErrorPage}}
    \cup {[kind |-> "response", status |-> 200, retry_after |-> ra, body |-> b] :
        ra \in RetryAfters, b \in Pages}

TransportError(kind) ==
    [kind |-> kind, status |-> 0, retry_after |-> -1, body |-> <<>>]

TransportErrors == {"ConnectTimeoutError", "ReadTimeoutError"}

NoResponse == TransportError("none")

Seen(resp) == [kind |-> resp.kind, status |-> resp.status, retry_after |-> resp.retry_after]

(***************************************************************************)
(* BusinessScraper.fetch_html                                              *)
(***************************************************************************)
Pending == [state |-> "pending", text |-> <<>>]

\* Response.raise_for_status raises for 4xx and 5xx.
raise_for_status(resp) == 400 <= resp.status /\ resp.status < 600

fetch_html(resp) ==
    IF resp.kind # "response" \/ raise_for_status(resp)
    THEN [state |-> "RuntimeError", text |-> <<>>]
    ELSE [state |-> "returned", text |-> resp.body]

\* urlopen decides after a response whether another attempt follows.
retries_response(r, resp) ==
    /\ is_retry(r, resp.status, resp.retry_after # -1)
    /\ ~is_exhausted(increment(r, "response"))

\* One attempt that ends with a response.
UrlopenResponse(resp) ==
    /\ pc = "fetch"
    /\ attempts' = Append(attempts, Seen(resp))
    /\ response' = resp
    /\ IF retries_response(retry, resp)
       THEN /\ retry' = increment(retry, "response")
            /\ delays' = Append(delays, sleep(retry', backoff_factor, resp))
            /\ UNCHANGED <<pc, fetched>>
       ELSE /\ fetched' = fetch_html(resp)
            /\ pc' = "fetched"
            /\ UNCHANGED <<retry, delays>>
    /\ UNCHANGED <<max_retries, backoff_factor, session, args, html, parsed,
                   outfile, logged, exit_status>>

\* One attempt that ends with a connection or read failure.
UrlopenError(kind) ==
    /\ pc = "fetch"
    /\ attempts' = Append(attempts, Seen(TransportError(kind)))
    /\ response' = TransportError(kind)
    /\ IF ~is_exhausted(increment(retry, kind))
       THEN /\ retry' = increment(retry, kind)
            /\ delays' = Append(delays, sleep(retry', backoff_factor, response'))
            /\ UNCHANGED <<pc, fetched>>
       ELSE /\ fetched' = fetch_html(response')
            /\ pc' = "fetched"
            /\ UNCHANGED <<retry, delays>>
    /\ UNCHANGED <<max_retries, backoff_factor, session, args, html, parsed,
                   outfile, logged, exit_status>>

AttemptResponds == \E resp \in Responses : UrlopenResponse(resp)

AttemptFails == \E kind \in TransportErrors : UrlopenError(kind)

(***************************************************************************)
(* Fetching alone: a scraper constructed with any retry policy, then one   *)
(* fetch_html call.                                                        *)
(***************************************************************************)
DefaultArgs ==
    [card_selector |-> "div.business-card", name_selector |-> "h2",
     email_selector |-> "span.email", format |-> "csv"]

NoFile == [exists |-> FALSE, format |-> "csv", rows |-> <<>>]

NotParsed == [raised |-> "pending", records |-> <<>>]

InitFetch ==
    /\ pc = "fetch"
    /\ max_retries \in 0..MaxRetries
    /\ backoff_factor \in BackoffFactors
    /\ session = "open"
    /\ retry = Retry(max_retries)
    /\ attempts = <<>>
    /\ delays = <<>>
    /\ response = NoResponse
    /\ fetched = Pending
    /\ args = DefaultArgs
    /\ html = <<>>
    /\ parsed = NotParsed
    /\ outfile = NoFile
    /\ logged = <<>>
    /\ exit_status = -1

NextFetch == AttemptResponds \/ AttemptFails

SpecFetch == InitFetch /\ [][NextFetch]_vars

(***************************************************************************)
(* Parsing alone: BeautifulSoup builds the tree node by node from the      *)
(* markup, then parse runs the selectors over it.                          *)
(***************************************************************************)
ParseArgs == {DefaultArgs}

\* html.parser attaches the next node of the markup to the tree.
FeedNode(node) ==
    /\ pc = "markup"
    /\ Len(html) < MaxNodes
    /\ html' = Append(html, node)
    /\ UNCHANGED <<pc, max_retries, backoff_factor, session, retry, attempts,
                   delays, response, fetched, args, parsed, outfile, logged,
                   exit_status>>

Feed == \E node \in NextNodes(html) : FeedNode(node)

\* The selector part of BusinessScraper.parse over the finished tree.
Parse ==
    /\ pc \in {"markup", "parse"}
    /\ parsed' = parse(html, args.card_selector, args.name_selector,
                       args.email_selector)
    /\ pc' = "parsed"
    /\ UNCHANGED <<max_retries, backoff_factor, session, retry, attempts, delays,
                   response, fetched, args, html, outfile, logged, exit_status>>

InitParse ==
    /\ pc = "markup"
    /\ max_retries = DEFAULT_MAX_RETRIES
    /\ backoff_factor = DEFAULT_BACKOFF_FACTOR
    /\ session = "open"
    /\ retry = Retry(max_retries)
    /\ attempts = <<>>
    /\ delays = <<>>
    /\ response = NoResponse
    /\ fetched = Pending
    /\ args \in ParseArgs
    /\ html = <<>>
    /\ parsed = NotParsed
    /\ outfile = NoFile
    /\ logged = <<>>
    /\ exit_status = -1

NextParse == Feed \/ Parse

SpecParse == InitParse /\ [][NextParse]_vars

(***************************************************************************)
(* The writers and the run workflow.  run constructs the scraper with the  *)
(* default retry policy.                                                   *)
(***************************************************************************)
CsvHeader == <<<<"N", "a", "m", "e">>, <<"E", "m", "a", "i", "l">>>>

RECURSIVE CsvRows(_)
CsvRows(records) ==
    IF records = <<>> THEN <<>>
    ELSE <<<<Head(records).name, Head(records).email>>>> \o CsvRows(Tail(records))

write_csv(records) ==
    [exists |-> TRUE, format |-> "csv", rows |-> <<CsvHeader>> \o CsvRows(records)]

write_json(records) ==
    [exists |-> TRUE, format |-> "json", rows |-> records]

RunArgs ==
    { DefaultArgs,
      [DefaultArgs EXCEPT !.format = "json"],
      [DefaultArgs EXCEPT !.card_selector = "h2["],
      [DefaultArgs EXCEPT !.name_selector = "h2["],
      [DefaultArgs EXCEPT !.email_selector = "h2["] }

\* run, up to the construction of the scraper.
RunStart ==
    /\ pc = "start"
    /\ logged' = Append(logged, "info")
    /\ session' = "open"
    /\ retry' = Retry(max_retries)
    /\ pc' = "fetch"
    /\ UNCHANGED <<max_retries, backoff_factor, attempts, delays, response,
                   fetched, args, html, parsed, outfile, exit_status>>

\* Variant: the error is logged but run goes on to parse.
RunFetchFailed_falls_through ==
    /\ pc = "fetched"
    /\ fetched.state = "RuntimeError"
    /\ logged' = Append(logged, "error")
    /\ html' = fetched.text
    /\ pc' = "parse"
    /\ UNCHANGED <<max_retries, backoff_factor, session, retry, attempts, delays,
                   response, fetched, args, parsed, outfile, exit_status>>

\* except RuntimeError: log the error and return 1.
RunFetchFailed ==
    /\ pc = "fetched"
    /\ fetched.state = "RuntimeError"
    /\ logged' = Append(logged, "error")
    /\ exit_status' = 1
    /\ pc' = "done"
    /\ UNCHANGED <<max_retries, backoff_factor, session, retry, attempts, delays,
                   response, fetched, args, html, parsed, outfile>>

\* fetch_html returned: its text is what parse gets.
RunFetchSucceeded ==
    /\ pc = "fetched"
    /\ fetched.state = "returned"
    /\ html' = fetched.text
    /\ pc' = "parse"
    /\ UNCHANGED <<max_retries, backoff_factor, session, retry, attempts, delays,
                   response, fetched, args, parsed, outfile, logged, exit_status>>

\* An exception of parse is not caught by run.
RunCrash ==
    /\ pc = "parsed"
    /\ parsed.raised # "none"
    /\ pc' = "crashed"
    /\ UNCHANGED <<max_retries, backoff_factor, session, retry, attempts, delays,
                   response, fetched, args, html, parsed, outfile, logged,
                   exit_status>>

\* Variant: the empty list is written out like any other.
RunNoRecords_writes_empty ==
    /\ pc = "parsed"
    /\ parsed.raised = "none"
    /\ parsed.records = <<>>
    /\ outfile' = IF args.format = "csv" THEN write_csv(parsed.records)
                  ELSE write_json(parsed.records)
    /\ logged' = Append(logged, "warning")
    /\ exit_status' = 0
    /\ pc' = "done"
    /\ UNCHANGED <<max_retries, backoff_factor, session, retry, attempts, delays,
                   response, fetched, args, html, parsed>>

\* if not records: warn and return 0.
RunNoRecords ==
    /\ pc = "parsed"
    /\ parsed.raised = "none"
    /\ parsed.records = <<>>
    /\ logged' = Append(logged, "warning")
    /\ exit_status' = 0
    /\ pc' = "done"
    /\ UNCHANGED <<max_retries, backoff_factor, session, retry, attempts, delays,
                   response, fetched, args, html, parsed, outfile>>

\* Write the records in the chosen format and return 0.
RunWrite ==
    /\ pc = "parsed"
    /\ parsed.raised = "none"
    /\ parsed.records # <<>>
    /\ outfile' = IF args.format = "csv" THEN write_csv(parsed.records)
                  ELSE write_json(parsed.records)
    /\ logged' = Append(logged, "info")
    /\ exit_status' = 0
    /\ pc' = "done"
    /\ UNCHANGED <<max_retries, backoff_factor, session, retry, attempts, delays,
                   response, fetched, args, html, parsed>>

InitRun ==
    /\ pc = "start"
    /\ max_retries = DEFAULT_MAX_RETRIES
    /\ backoff_factor = DEFAULT_BACKOFF_FACTOR
    /\ session = "none"
    /\ retry = Retry(0)
    /\ attempts = <<>>
    /\ delays = <<>>
    /\ response = NoResponse
    /\ fetched = Pending
    /\ args \in RunArgs
    /\ html = <<>>
    /\ parsed = NotParsed
    /\ outfile = NoFile
    /\ logged = <<>>
    /\ exit_status = -1

NextRun ==
    \/ RunStart
    \/ AttemptResponds
    \/ AttemptFails
    \/ RunFetchFailed
    \/ RunFetchSucceeded
    \/ Parse
    \/ RunCrash
    \/ RunNoRecords
    \/ RunWrite

SpecRun == InitRun /\ [][NextRun]_vars

(***************************************************************************)
(* Properties of fetch_html (checked under SpecFetch).                     *)
(***************************************************************************)
IsStatus(i, codes) ==
    attempts[i].kind = "response" /\ attempts[i].status \in codes

AlwaysRetryable ==
    attempts # <<>> /\ \A i \in 1..Len(attempts) : IsStatus(i, status_forcelist)

\* C1 as stated, reading "max attempts = N" as the configured max_retries = N:
\* a fetch never makes more than N attempts, and against a transport that
\* always answers with a retryable status it ends after exactly N attempts in
\* a FetchError.
C1_ExactlyNAttempts ==
    (max_retries >= 1 /\ AlwaysRetryable)
       => /\ Len(attempts) <= max_retries
          /\ pc = "fetched"
                => (Len(attempts) = max_retries /\ fetched.state = "RuntimeError")

\* C1 amended: the configured number counts retries.  A fetch never makes more
\* than max_retries + 1 attempts, and against a transport that always answers
\* with a retryable status it ends after exactly max_retries + 1 attempts in a
\* FetchError (RuntimeError).
C1_RetryExhaustion ==
    /\ Len(attempts) <= max_retries + 1
    /\ (pc = "fetch" /\ AlwaysRetryable) => Len(attempts) <= max_retries
    /\ (pc = "fetched" /\ AlwaysRetryable)
          => (Len(attempts) = max_retries + 1 /\ fetched.state = "RuntimeError")

C1_Witness ==
    /\ pc = "fetched"
    /\ AlwaysRetryable
    /\ max_retries = 2
    /\ Len(attempts) = 3
    /\ fetched.state = "RuntimeError"

TwoFailuresThenSuccess ==
    /\ Len(attempts) >= 3
    /\ IsStatus(1, {503})
    /\ IsStatus(2, {503})
    /\ IsStatus(3, {200})

\* C2: with room for three attempts (max_retries >= 2, which covers a maximum
\* of three or more attempts under either reading of the number), a transport
\* answering 503, 503, 200 is asked exactly three times, and fetch_html
\* returns the body of the 200 response without raising.
C2_TransientRecovery ==
    /\ (max_retries >= 2 /\ Len(attempts) = 2 /\ IsStatus(1, {503}) /\ IsStatus(2, {503}))
          => pc = "fetch"
    /\ (max_retries >= 2 /\ TwoFailuresThenSuccess)
          => /\ pc = "fetched"
             /\ Len(attempts) = 3
             /\ fetched.state = "returned"
             /\ response.status = 200
             /\ fetched.text = response.body
             /\ fetched.text \in Pages

C2_Witness ==
    /\ max_retries = 3
    /\ TwoFailuresThenSuccess
    /\ pc = "fetched"
    /\ fetched.state = "returned"
    /\ fetched.text # <<>>

IsNonRetryableError(i) ==
    /\ attempts[i].kind = "response"
    /\ attempts[i].status >= 400
    /\ attempts[i].status \notin status_forcelist

\* C3: an attempt answered with an error status outside the retryable set is
\* the last attempt of the fetch, which then fails with a FetchError; a body is
\* returned only for a final response that is not an error.
C3_NonRetryableEndsFetch ==
    /\ \A i \in 1..Len(attempts) :
          IsNonRetryableError(i)
             => (i = Len(attempts) /\ pc = "fetched" /\ fetched.state = "RuntimeError")
    /\ fetched.state = "returned" => response.status < 400

\* Retry k waits for the backoff unless the response before it carried a
\* positive Retry-After.
WaitsRetryAfter(k) ==
    attempts[k].kind = "response" /\ attempts[k].retry_after > 0

NoRetryAfterSeen == \A i \in 1..Len(attempts) : attempts[i].retry_after = -1

\* C10 as stated (for responses without a Retry-After header, where the backoff
\* alone sets the delay): every retry is preceded by a delay, and each delay
\* is strictly greater than the one before.
C10_EveryRetryDelayedMore ==
    NoRetryAfterSeen
       => \A k \in 1..Len(delays) :
             /\ delays[k] > 0
             /\ k > 1 => delays[k] > delays[k - 1]

\* C10 amended: delay k is the one slept between attempt k and attempt k + 1,
\* so nothing precedes the first attempt.  The first retry is not delayed
\* either; retry k >= 2 waits backoff_factor * 2^(k-1), at most BACKOFF_MAX
\* (120 s), so the backoff delays never decrease and grow strictly until the
\* cap is reached.  A retry after a response with a positive Retry-After
\* header waits that long instead.
C10_BackoffSchedule ==
    /\ Len(delays) = (IF pc = "fetched" THEN Len(attempts) - 1 ELSE Len(attempts))
    /\ \A k \in 1..Len(delays) :
          IF WaitsRetryAfter(k) THEN delays[k] = attempts[k].retry_after
          ELSE /\ k = 1 => delays[k] = 0
               /\ k = 2 => delays[k] = Min(BACKOFF_MAX, 2 * backoff_factor)
               /\ k > 2 => delays[k] = Min(BACKOFF_MAX, backoff_factor * 2 ^ (k - 1))
    /\ \A j, k \in 1..Len(delays) :
          (j < k /\ ~WaitsRetryAfter(j) /\ ~WaitsRetryAfter(k))
             => /\ delays[j] <= delays[k]
                /\ delays[k] < BACKOFF_MAX => delays[j] < delays[k]

C10_Witness ==
    /\ Len(delays) = 3
    /\ \A k \in 1..3 : ~WaitsRetryAfter(k)
    /\ delays[1] = 0
    /\ delays[2] = 800
    /\ delays[3] = BACKOFF_MAX

(***************************************************************************)
(* Properties of parse (checked under SpecParse).  The cards and the       *)
(* fields are described here from the tree alone.                          *)
(***************************************************************************)
CardNodes == {i \in 1..Len(html) : Matches(html[i], args.card_selector)}

\* Position of card i among the cards, in document order.
CardRank(i) == Cardinality({j \in CardNodes : j <= i})

FieldNodes(card, sel) ==
    {j \in 1..Len(html) : IsAncestor(html, card, j) /\ Matches(html[j], sel)}

FirstOf(S) == CHOOSE j \in S : \A k \in S : j <= k

TextNodesOf(e) == {j \in 1..Len(html) : ~IsElement(html[j]) /\ IsAncestor(html, e, j)}

\* The descendant text of e as it stands in the markup, nothing stripped.
RECURSIVE RawTextFrom(_, _)
RawTextFrom(e, i) ==
    IF i > Len(html) THEN <<>>
    ELSE IF i \in TextNodesOf(e) THEN html[i].text \o RawTextFrom(e, i + 1)
         ELSE RawTextFrom(e, i + 1)

RawText(e) == RawTextFrom(e, 1)

ParseReturned == pc = "parsed" /\ parsed.raised = "none"

\* C6: parse returns exactly one record per node matching the card selector,
\* nested matches included, and the i-th record is the one built from the i-th
\* matching node in document order.
C6_OneRecordPerCardInOrder ==
    ParseReturned
       => /\ Len(parsed.records) = Cardinality(CardNodes)
          /\ \A i \in CardNodes :
                parsed.records[CardRank(i)]
                   = RecordOfCard(html, i, args.name_selector, args.email_selector)

C6_Witness ==
    /\ ParseReturned
    /\ Len(parsed.records) = 2
    /\ \E i, j \in CardNodes : IsAncestor(html, i, j)
    /\ parsed.records[1] # parsed.records[2]

\* The value the field has to take under the sentinel rule, with "trimmed
\* text" read as the text of the element with its ends trimmed.
FieldAsClaimed(card, sel) ==
    IF FieldNodes(card, sel) = {} THEN NA
    ELSE strip(RawText(FirstOf(FieldNodes(card, sel))))

\* C7 as stated: a field is "N/A" when no descendant of the card matches its
\* selector, and otherwise the trimmed text of the first matching descendant.
C7_TrimmedTextOrSentinel ==
    ParseReturned
       => \A i \in CardNodes :
             /\ parsed.records[CardRank(i)].name = FieldAsClaimed(i, args.name_selector)
             /\ parsed.records[CardRank(i)].email = FieldAsClaimed(i, args.email_selector)

\* What a field holds when its selector matches element e: every text
\* fragment of e trimmed on its own, the fragments joined with nothing between.
FieldOfMatch(value, e) ==
    /\ value = get_text(html, e)
    /\ Cardinality(TextNodesOf(e)) <= 1 => value = strip(RawText(e))
    /\ (\A j \in TextNodesOf(e) : \A c \in 1..Len(html[j].text) :
            html[j].text[c] \in Whitespace) => value = <<>>
    /\ value # NA
    /\ value # <<>> => (value[1] \notin Whitespace /\ value[Len(value)] \notin Whitespace)

FieldAsBuilt(value, card, sel) ==
    IF FieldNodes(card, sel) = {} THEN value = NA
    ELSE FieldOfMatch(value, FirstOf(FieldNodes(card, sel)))

\* C7 amended: for each card, name is "N/A" when no descendant of the card
\* matches the name selector; otherwise it is the text of the first matching
\* descendant in document order with every text fragment trimmed separately
\* and the fragments joined without a separator (the trimmed text when there
\* is one fragment, the empty string when there is only whitespace).  Nodes
\* outside the card are never used, email follows the same rule on its own
\* selector, and no missing field makes parse raise.
C7_SentinelRule ==
    /\ ParseReturned
          => \A i \in CardNodes :
                /\ FieldAsBuilt(parsed.records[CardRank(i)].name, i, args.name_selector)
                /\ FieldAsBuilt(parsed.records[CardRank(i)].email, i, args.email_selector)
    /\ (pc = "parsed" /\ \A sel \in {args.card_selector, args.name_selector,
                                      args.email_selector} : ValidSelector(sel))
          => parsed.raised = "none"

\* A card without a name of its own next to a name outside it, and an email
\* element holding only whitespace.
C7_Witness ==
    /\ ParseReturned
    /\ \E i \in CardNodes :
          /\ FieldNodes(i, args.name_selector) = {}
          /\ \E j \in 1..Len(html) : Matches(html[j], args.name_selector)
          /\ FieldNodes(i, args.email_selector) # {}
          /\ parsed.records[CardRank(i)] = BusinessRecord(NA, <<>>)
          /\ RawText(FirstOf(FieldNodes(i, args.email_selector))) = <<" ">>

(***************************************************************************)
(* Properties of run (checked under SpecRun).                              *)
(***************************************************************************)
RunEnded == pc \in {"done", "crashed"}

\* C4: when fetch_html fails, run logs the error and returns 1 without ever
\* calling parse or creating the output file; parse is only ever called after
\* fetch_html has returned.
C4_FetchFailureEndsRun ==
    /\ fetched.state = "RuntimeError"
          => /\ pc \in {"fetched", "done"}
             /\ parsed = NotParsed
             /\ outfile = NoFile
             /\ pc = "done" => (exit_status = 1 /\ logged[Len(logged)] = "error")
    /\ (pc \in {"parse", "parsed"} \/ parsed # NotParsed \/ outfile.exists)
          => fetched.state = "returned"

C4_Witness ==
    /\ pc = "done"
    /\ fetched.state = "RuntimeError"
    /\ exit_status = 1
    /\ Len(attempts) = DEFAULT_MAX_RETRIES + 1

NoCardInPage ==
    /\ fetched.state = "returned"
    /\ ValidSelector(args.card_selector)
    /\ ~\E i \in 1..Len(fetched.text) : Matches(fetched.text[i], args.card_selector)

\* C5: when the fetch succeeds and no node of the page matches the card
\* selector, parse returns the empty list and run returns 0 after a warning,
\* without writing anything.
C5_EmptyResultIsSuccess ==
    NoCardInPage
       => /\ pc # "crashed"
          /\ outfile = NoFile
          /\ pc \in {"parsed", "done"} => parsed = Returned(<<>>)
          /\ pc = "done" => (exit_status = 0 /\ logged[Len(logged)] = "warning")

C5_Witness ==
    /\ NoCardInPage
    /\ pc = "done"
    /\ fetched.text # <<>>
    /\ exit_status = 0

InvalidPatternGiven ==
    \E sel \in {args.card_selector, args.name_selector, args.email_selector} :
        ~ValidSelector(sel)

\* C8: once the page has been fetched, a run given an unparseable card, name
\* or email selector ends in an error outcome of its own: never as a returned
\* result (the empty result included), never with records or an output file.
C8_InvalidPatternIsAnError ==
    (RunEnded /\ fetched.state = "returned" /\ InvalidPatternGiven)
       => /\ parsed.raised # "none"
          /\ exit_status # 0
          /\ outfile = NoFile

\* C9: by the time run returns, the session opened for it has been closed.
C9_SessionClosedOnReturn ==
    pc = "done" => session = "closed"

====
